---- MODULE Spec2Model ----
(***************************************************************************)
(* Rule-matching and grid-stepping engine of wire_world_engine             *)
(* (src/main.py): Rule.matches, Rule._count_neighbors,                     *)
(* Grid.__init__, Grid.step, Grid.calculate_next_cell_state, Grid.as_list. *)
(*                                                                         *)
(* A grid is a sequence of rows, each row a sequence of one-character      *)
(* strings.  The code indexes rows and columns from 0 (x is the row, y the *)
(* column); TLA+ sequences are indexed from 1, so cell (x,y) of the code   *)
(* is g[x+1][y+1] here and pattern[dx+1][dy+1] is pattern[dx+2][dy+2].     *)
(***************************************************************************)
EXTENDS Integers, Sequences, FiniteSets, TLC

(* ----------------------------- bounds ---------------------------------- *)
MaxCells == 4
MaxRules == 2
MaxTurn == 2
MaxCountCells == 9
MaxCtorRows == 2
MaxCtorCols == 2

(* ----------------------------- inputs ---------------------------------- *)
\* cell states used by the general model; "X" is the pattern wildcard
States == {"_", "H"}

\* the states of the Wireworld alphabet
WireStates == {"_", "H", "T", "W"}

Wild == <<"X", "X", "X">>

\* centre pinned to H, no conditions
RuleHead ==
  [name |-> "head", pattern |-> <<Wild, <<"X", "H", "X">>, Wild>>,
   new_state |-> "_", conditions |-> <<>>]

\* wildcard centre, concrete H required at offset (dx,dy) = (0,-1)
RuleLeft ==
  [name |-> "left", pattern |-> <<Wild, <<"H", "X", "X">>, Wild>>,
   new_state |-> "H", conditions |-> <<>>]

\* wildcard centre, concrete _ required at offset (dx,dy) = (1,0)
RuleDown ==
  [name |-> "down", pattern |-> <<Wild, Wild, <<"X", "_", "X">>>>,
   new_state |-> "H", conditions |-> <<>>]

\* centre pinned to _, two neighbor-count conditions, the second one
\* carrying operator NOT_IN
RuleCond ==
  [name |-> "cond", pattern |-> <<Wild, <<"X", "_", "X">>, Wild>>,
   new_state |-> "H",
   conditions |-> << [type |-> "neighbor_count", state |-> "H",
                      operator |-> "IN", values |-> {1, 2}],
                     [type |-> "neighbor_count", state |-> "_",
                      operator |-> "NOT_IN", values |-> {0}] >>]

RulePool == {RuleHead, RuleLeft, RuleDown, RuleCond}

\* ordered rule lists of at most MaxRules rules
RuleLists == UNION {[1..n -> RulePool] : n \in 0..MaxRules}

\* rectangular arrays of h rows and w columns over the cell values S
Arrays(h, w, S) == [1..h -> [1..w -> S]]

\* strings a caller can put into initial: two states and two strings that
\* are not one character long
CtorCells == {"_", "H", "", "HH"}

\* rows of up to MaxCtorCols strings
CtorRows == UNION {[1..w -> CtorCells] : w \in 0..MaxCtorCols}

\* lists of up to MaxCtorRows such rows
AnyInitials == UNION {[1..h -> CtorRows] : h \in 0..MaxCtorRows}

CtorRules == <<RuleLeft, RuleHead>>

\* the side of the grids of the Wireworld scenarios
WireDim == 3

\* the centre cell of those grids, the one the scenarios ask about
WireCentre == 1

\* head -> tail
WireHead ==
  [name |-> "head_to_tail", pattern |-> <<Wild, <<"X", "H", "X">>, Wild>>,
   new_state |-> "T", conditions |-> <<>>]

\* tail -> wire
WireTail ==
  [name |-> "tail_to_wire", pattern |-> <<Wild, <<"X", "T", "X">>, Wild>>,
   new_state |-> "W", conditions |-> <<>>]

\* wire -> head when one or two neighbors are heads
WireWire ==
  [name |-> "wire_to_head", pattern |-> <<Wild, <<"X", "W", "X">>, Wild>>,
   new_state |-> "H",
   conditions |-> << [type |-> "neighbor_count", state |-> "H",
                      operator |-> "IN", values |-> {1, 2}] >>]

\* the rule set of wire-world.yaml
WireWorld == <<WireHead, WireTail, WireWire>>

\* the shapes <<h, w>> of the arrays of at most n cells
Shapes(n) == {sh \in (1..n) \X (1..n) : sh[1] * sh[2] <= n}

\* the arrays of states of at most n cells
RectGrids(n) == UNION {Arrays(sh[1], sh[2], States) : sh \in Shapes(n)}

(* ----------------------------- state ----------------------------------- *)
VARIABLES
  pc,        \* "new", "ready", "step" or "error"
  args,      \* the arguments of Grid(width, height, initial)
  rules,     \* rule_set.rules
  width,     \* self.width
  height,    \* self.height
  grid,      \* self.grid
  turn,      \* self.turn
  new_grid,  \* step: the buffer new_grid
  x,         \* step: loop variable x
  y,         \* step: loop variable y
  snapshot,  \* history: self.grid when the running (or last) step began
  err,       \* the exception the last operation raised, or "none"
  call       \* the last direct call of matches / calculate_next_cell_state

vars == <<pc, args, rules, width, height, grid, turn, new_grid, x, y,
          snapshot, err, call>>

NoCall ==
  [op |-> "none", i |-> 0, x |-> 0, y |-> 0, state |-> "", hit |-> FALSE,
   count |-> 0]

(* --------------------------- numpy array -------------------------------- *)
\* grid.shape
ShapeH(g) == Len(g)
ShapeW(g) == Len(g[1])

\* grid[x, y] for 0 <= x < h, 0 <= y < w
Cell(g, cx, cy) == g[cx + 1][cy + 1]

\* 0 <= px < h and 0 <= py < w
InBounds(g, px, py) ==
  /\ 0 <= px /\ px < ShapeH(g)
  /\ 0 <= py /\ py < ShapeW(g)

\* the larger of two integers
Max2(a, b) == IF a >= b THEN a ELSE b

RECURSIVE MaxLenRow(_, _)
\* the longest string of row[1..k]
MaxLenRow(row, k) ==
  IF k = 0 THEN 0 ELSE Max2(Len(row[k]), MaxLenRow(row, k - 1))

RECURSIVE MaxLenArr(_, _)
\* the longest string of rows a[1..k]
MaxLenArr(a, k) ==
  IF k = 0 THEN 0 ELSE Max2(MaxLenRow(a[k], Len(a[k])), MaxLenArr(a, k - 1))

\* np.array(initial, dtype=str): the item width of the array is the length
\* of its longest string (at least 1) and stays fixed for copies of it
ItemSize(initial) == Max2(1, MaxLenArr(initial, Len(initial)))

\* a string stored into an array of item width n is cut to n characters
Store(n, v) == IF Len(v) <= n THEN v ELSE SubSeq(v, 1, n)

\* new_grid[x, y] = v
SetCell(g, cx, cy, v, n) == [g EXCEPT ![cx + 1][cy + 1] = Store(n, v)]

(* ------------------------------- Rule ---------------------------------- *)
RECURSIVE CountFromSelf(_, _, _, _, _)
\* CountFrom without the skip of dx == 0 and dy == 0: the cell counts itself
CountFromSelf(g, cx, cy, state_to_count, k) ==
  IF k > 8 THEN 0
  ELSE LET dx == (k \div 3) - 1
           dy == (k % 3) - 1
           px == cx + dx
           py == cy + dy
           hit == /\ InBounds(g, px, py)
                  /\ Cell(g, px, py) = state_to_count
       IN (IF hit THEN 1 ELSE 0)
            + CountFromSelf(g, cx, cy, state_to_count, k + 1)

RECURSIVE CountFrom(_, _, _, _, _)
\* the loop of _count_neighbors from iteration k on (k = 3*(dx+1) + (dy+1)),
\* returning the increments still to be added to count
CountFrom(g, cx, cy, state_to_count, k) ==
  IF k > 8 THEN 0
  ELSE LET dx == (k \div 3) - 1
           dy == (k % 3) - 1
           px == cx + dx
           py == cy + dy
           hit == /\ ~(dx = 0 /\ dy = 0)
                  /\ InBounds(g, px, py)
                  /\ Cell(g, px, py) = state_to_count
       IN (IF hit THEN 1 ELSE 0) + CountFrom(g, cx, cy, state_to_count, k + 1)

\* Rule._count_neighbors(grid, x, y, state_to_count)
count_neighbors(g, cx, cy, state_to_count) ==
  CountFrom(g, cx, cy, state_to_count, 0)

\* PatternCellOk wrapping an off-grid neighbor around to the opposite edge
PatternCellWrap(rule, g, cx, cy, dx, dy) ==
  LET pattern_cell == rule.pattern[dx + 2][dy + 2]
      px == (cx + dx) % ShapeH(g)
      py == (cy + dy) % ShapeW(g)
  IN \/ pattern_cell = "X"
     \/ Cell(g, px, py) = pattern_cell

\* matches, part 1: one cell of the 3x3 pattern lets the loop go on
PatternCellOk(rule, g, cx, cy, dx, dy) ==
  LET pattern_cell == rule.pattern[dx + 2][dy + 2]
      px == cx + dx
      py == cy + dy
  IN \/ pattern_cell = "X"
     \/ /\ InBounds(g, px, py)
        /\ Cell(g, px, py) = pattern_cell

\* matches, part 1: no cell of the pattern returns False
PatternOk(rule, g, cx, cy) ==
  \A dx \in -1..1 : \A dy \in -1..1 : PatternCellOk(rule, g, cx, cy, dx, dy)

\* CondOk reading an operator: NOT_IN passes when the count is not a member
CondOkOperator(cond, g, cx, cy) ==
  cond.type = "neighbor_count" =>
    IF cond.operator = "NOT_IN"
    THEN count_neighbors(g, cx, cy, cond.state) \notin cond.values
    ELSE count_neighbors(g, cx, cy, cond.state) \in cond.values

\* matches, part 2: one condition does not return False
CondOk(cond, g, cx, cy) ==
  cond.type = "neighbor_count" =>
    count_neighbors(g, cx, cy, cond.state) \in cond.values

\* matches answering from the pattern alone, its conditions never evaluated
MatchesPatternOnly(rule, g, cx, cy) == PatternOk(rule, g, cx, cy)

\* Rule.matches(grid, x, y)
matches(rule, g, cx, cy) ==
  /\ PatternOk(rule, g, cx, cy)
  /\ \A k \in 1..Len(rule.conditions) : CondOk(rule.conditions[k], g, cx, cy)

(* ------------------------------- Grid ---------------------------------- *)
RECURSIVE LastMatch(_, _, _, _, _)
\* FirstMatch without the early return: a later matching rule overrides
LastMatch(g, cx, cy, rs, i) ==
  IF i > Len(rs) THEN Cell(g, cx, cy)
  ELSE LET rest == LastMatch(g, cx, cy, rs, i + 1)
       IN IF \E j \in (i + 1)..Len(rs) : matches(rs[j], g, cx, cy) THEN rest
          ELSE IF matches(rs[i], g, cx, cy) THEN rs[i].new_state
               ELSE rest

RECURSIVE FirstMatchOrEmpty(_, _, _, _, _)
\* FirstMatch falling back to the empty state instead of current_state
FirstMatchOrEmpty(g, cx, cy, rs, i) ==
  IF i > Len(rs) THEN "_"
  ELSE IF matches(rs[i], g, cx, cy) THEN rs[i].new_state
       ELSE FirstMatchOrEmpty(g, cx, cy, rs, i + 1)

RECURSIVE FirstMatchName(_, _, _, _, _)
\* FirstMatch returning the matching rule's name instead of its new_state
FirstMatchName(g, cx, cy, rs, i) ==
  IF i > Len(rs) THEN Cell(g, cx, cy)
  ELSE IF matches(rs[i], g, cx, cy) THEN rs[i].name
       ELSE FirstMatchName(g, cx, cy, rs, i + 1)

RECURSIVE FirstMatch(_, _, _, _, _)
\* the loop over rule_set.rules from rule i on; falls back to current_state
FirstMatch(g, cx, cy, rs, i) ==
  IF i > Len(rs) THEN Cell(g, cx, cy)
  ELSE IF matches(rs[i], g, cx, cy) THEN rs[i].new_state
       ELSE FirstMatch(g, cx, cy, rs, i + 1)

\* Grid.calculate_next_cell_state(x, y, rule_set) for (x,y) inside the array
calculate_next_cell_state(g, cx, cy, rs) == FirstMatch(g, cx, cy, rs, 1)

\* initial[0][0] and isinstance(initial[0][0], str) and len(initial[0][0]) == 1
FirstCellOk(initial) == Len(initial[1][1]) = 1

\* np.array(initial, dtype=str) builds a 2-D array only from rows of one length
Rectangular(initial) == \A r \in 1..Len(initial) : Len(initial[r]) = Len(initial[1])

\* Grid.__init__: the exception it raises, or "none"
InitError(initial) ==
  IF Len(initial) = 0 \/ Len(initial[1]) = 0 THEN "IndexError"
  ELSE IF ~FirstCellOk(initial) THEN "AssertionError"
  ELSE IF ~Rectangular(initial) THEN "ValueError"
  ELSE "none"

\* Grid(width, height, initial)
Construct ==
  /\ pc = "new"
  /\ LET e == InitError(args.initial)
     IN IF e = "none"
        THEN /\ pc' = "ready"
             /\ width' = args.width
             /\ height' = args.height
             /\ grid' = args.initial
             /\ err' = "none"
        ELSE /\ pc' = "error"
             /\ err' = e
             /\ UNCHANGED <<width, height, grid>>
  /\ turn' = 0
  /\ UNCHANGED <<args, rules, new_grid, x, y, snapshot, call>>

\* The three direct calls below read the grid and change nothing; call keeps
\* the arguments and the result of the one call made on the constructed grid,
\* as each test of test_wireworld.py makes one call on a fresh Grid.

\* grid.calculate_next_cell_state(cx, cy, rule_set), called directly
Calc(cx, cy) ==
  /\ pc = "ready"
  /\ call.op = "none"
  /\ InBounds(grid, cx, cy)
  /\ call' = [op |-> "calc", i |-> 0, x |-> cx, y |-> cy,
              state |-> calculate_next_cell_state(grid, cx, cy, rules),
              hit |-> FALSE, count |-> 0]
  /\ UNCHANGED <<pc, args, rules, width, height, grid, turn, new_grid, x, y,
                 snapshot, err>>

\* rule_set.rules[i].matches(grid.grid, cx, cy), called directly
Match(i, cx, cy) ==
  /\ pc = "ready"
  /\ call.op = "none"
  /\ i \in 1..Len(rules)
  /\ InBounds(grid, cx, cy)
  /\ call' = [op |-> "matches", i |-> i, x |-> cx, y |-> cy, state |-> "",
              hit |-> matches(rules[i], grid, cx, cy), count |-> 0]
  /\ UNCHANGED <<pc, args, rules, width, height, grid, turn, new_grid, x, y,
                 snapshot, err>>

\* rule._count_neighbors(grid.grid, cx, cy, s), called directly
Count(cx, cy, s) ==
  /\ pc = "ready"
  /\ call.op = "none"
  /\ InBounds(grid, cx, cy)
  /\ call' = [op |-> "count", i |-> 0, x |-> cx, y |-> cy, state |-> s,
              hit |-> FALSE, count |-> count_neighbors(grid, cx, cy, s)]
  /\ UNCHANGED <<pc, args, rules, width, height, grid, turn, new_grid, x, y,
                 snapshot, err>>

\* step, up to the loop: self.turn += 1; new_grid = self.grid.copy()
StepBegin ==
  /\ pc = "ready"
  /\ turn < MaxTurn
  /\ pc' = "step"
  /\ turn' = turn + 1
  /\ new_grid' = grid
  /\ x' = 0
  /\ y' = 0
  /\ snapshot' = grid
  /\ err' = "none"
  /\ UNCHANGED <<args, rules, width, height, grid, call>>

\* StepCell computing the next state from new_grid, which already holds the
\* cells updated earlier in this step
StepCellReadsNew ==
  /\ pc = "step"
  /\ x < height
  /\ IF InBounds(grid, x, y)
     THEN /\ new_grid' = SetCell(new_grid, x, y,
                                 calculate_next_cell_state(new_grid, x, y, rules),
                                 ItemSize(args.initial))
          /\ IF y + 1 < width
             THEN /\ y' = y + 1
                  /\ x' = x
             ELSE /\ y' = 0
                  /\ x' = x + 1
          /\ UNCHANGED <<pc, err>>
     ELSE /\ pc' = "ready"
          /\ err' = "IndexError"
          /\ UNCHANGED <<new_grid, x, y>>
  /\ UNCHANGED <<args, rules, width, height, grid, turn, snapshot, call>>

\* StepCell when new_grid is self.grid itself (no copy): every write lands in
\* the grid a reader sees
StepCellAlias ==
  /\ pc = "step"
  /\ x < height
  /\ IF InBounds(grid, x, y)
     THEN /\ new_grid' = SetCell(new_grid, x, y,
                                 calculate_next_cell_state(grid, x, y, rules),
                                 ItemSize(args.initial))
          /\ grid' = new_grid'
          /\ IF y + 1 < width
             THEN /\ y' = y + 1
                  /\ x' = x
             ELSE /\ y' = 0
                  /\ x' = x + 1
          /\ UNCHANGED <<pc, err>>
     ELSE /\ pc' = "ready"
          /\ err' = "IndexError"
          /\ UNCHANGED <<new_grid, x, y, grid>>
  /\ UNCHANGED <<args, rules, width, height, turn, snapshot, call>>

\* step, one iteration of the loop body:
\* new_grid[x, y] = self.calculate_next_cell_state(x, y, rule_set).
\* For a cell of range(height) x range(width) outside the array self.grid[x, y]
\* raises IndexError and step is left without reaching the commit.
StepCell ==
  /\ pc = "step"
  /\ x < height
  /\ IF InBounds(grid, x, y)
     THEN /\ new_grid' = SetCell(new_grid, x, y,
                                 calculate_next_cell_state(grid, x, y, rules),
                                 ItemSize(args.initial))
          /\ IF y + 1 < width
             THEN /\ y' = y + 1
                  /\ x' = x
             ELSE /\ y' = 0
                  /\ x' = x + 1
          /\ UNCHANGED <<pc, err>>
     ELSE /\ pc' = "ready"
          /\ err' = "IndexError"
          /\ UNCHANGED <<new_grid, x, y>>
  /\ UNCHANGED <<args, rules, width, height, grid, turn, snapshot, call>>

\* step, after the loop: self.grid = new_grid
StepCommit ==
  /\ pc = "step"
  /\ x = height
  /\ grid' = new_grid
  /\ pc' = "ready"
  /\ UNCHANGED <<args, rules, width, height, turn, new_grid, x, y, snapshot,
                 err, call>>

(* -------------------------- specifications ----------------------------- *)
Fresh ==
  /\ pc = "new"
  /\ width = 0
  /\ height = 0
  /\ grid = <<>>
  /\ turn = 0
  /\ new_grid = <<>>
  /\ x = 0
  /\ y = 0
  /\ snapshot = <<>>
  /\ err = "none"
  /\ call = NoCall

\* a well-formed construction: initial is a height x width array of states
Init ==
  /\ \E g \in RectGrids(MaxCells) :
       args = [width |-> ShapeW(g), height |-> ShapeH(g), initial |-> g]
  /\ rules \in RuleLists
  /\ Fresh

\* construction, then steps
Next ==
  \/ Construct
  \/ StepBegin
  \/ StepCell
  \/ StepCommit

Spec == Init /\ [][Next]_vars

\* construction, then one direct call of the per-cell resolution or of the
\* matcher of one rule
NextCall ==
  \/ Construct
  \/ \E cx \in 0..(MaxCells - 1) : \E cy \in 0..(MaxCells - 1) : Calc(cx, cy)
  \/ \E i \in 1..MaxRules :
       \E cx \in 0..(MaxCells - 1) : \E cy \in 0..(MaxCells - 1) :
         Match(i, cx, cy)

SpecCall == Init /\ [][NextCall]_vars

\* any construction: declared sizes and initial are independent, initial may
\* be empty, ragged or hold strings that are not one character long
InitCtor ==
  /\ args \in [width : 1..MaxCtorCols, height : 1..MaxCtorRows,
              initial : AnyInitials]
  /\ rules = CtorRules
  /\ Fresh

SpecCtor == InitCtor /\ [][Next]_vars

\* the Wireworld rule set on every 3x3 grid of Wireworld states
InitWire ==
  /\ \E g \in Arrays(WireDim, WireDim, WireStates) :
       args = [width |-> WireDim, height |-> WireDim, initial |-> g]
  /\ rules = WireWorld
  /\ Fresh

NextWire ==
  \/ Construct
  \/ Calc(WireCentre, WireCentre)

SpecWire == InitWire /\ [][NextWire]_vars

\* neighbor counting on every grid of at most MaxCountCells cells
InitCount ==
  /\ \E g \in RectGrids(MaxCountCells) :
       args = [width |-> ShapeW(g), height |-> ShapeH(g), initial |-> g]
  /\ rules = <<>>
  /\ Fresh

NextCount ==
  \/ Construct
  \/ \E cx \in 0..(MaxCountCells - 1) : \E cy \in 0..(MaxCountCells - 1) :
       \E s \in States : Count(cx, cy, s)

SpecCount == InitCount /\ [][NextCount]_vars

(* ---------------------------- properties ------------------------------- *)
\* the positions (dx,dy) of the 8 neighbors
Around == ((-1..1) \X (-1..1)) \ {<<0, 0>>}

\* the cells (cx,cy) of an array of the given shape
CellsOf(g) == (0..(Len(g) - 1)) \X (0..(Len(g[1]) - 1))

\* the neighbors of (cx,cy) that lie inside g and hold s
NeighborsHolding(g, cx, cy, s) ==
  {d \in Around :
     /\ cx + d[1] >= 0 /\ cx + d[1] <= Len(g) - 1
     /\ cy + d[2] >= 0 /\ cy + d[2] <= Len(g[1]) - 1
     /\ g[cx + d[1] + 1][cy + d[2] + 1] = s}

\* the rules of rs that match cell (cx,cy) of g
Matching(g, cx, cy, rs) == {i \in 1..Len(rs) : matches(rs[i], g, cx, cy)}

\* C1 - first-match priority: calculate_next_cell_state returns the new_state
\* of the lowest-indexed rule that matches the cell, never a later rule's.
C1_FirstMatchPriority ==
  call.op = "calc" =>
    LET M == Matching(grid, call.x, call.y, rules)
    IN M # {} =>
         \E i \in M : /\ \A j \in M : i <= j
                      /\ call.state = rules[i].new_state

\* two rules with different results match the cell of the call
C1_Witness ==
  /\ call.op = "calc"
  /\ \E i, j \in Matching(grid, call.x, call.y, rules) :
       /\ i < j
       /\ rules[i].new_state # rules[j].new_state
       /\ call.state = rules[i].new_state

\* the cells of range(height) x range(width) that the loop of the running
\* step has already resolved
Resolved ==
  {c \in (0..(height - 1)) \X (0..(width - 1)) :
     c[1] < x \/ (c[1] = x /\ c[2] < y)}

\* C3 - idle stability: a cell that no rule matches (the empty rule list
\* included) has next state equal to its current state, a completed step
\* leaves it as it was, and no error is raised.
C3_IdleStability ==
  /\ err = "none"
  /\ pc = "step" =>
       \A c \in Resolved :
         Matching(snapshot, c[1], c[2], rules) = {} =>
           new_grid[c[1] + 1][c[2] + 1] = snapshot[c[1] + 1][c[2] + 1]
  /\ pc = "ready" /\ turn > 0 =>
       \A c \in CellsOf(snapshot) :
         Matching(snapshot, c[1], c[2], rules) = {} =>
           grid[c[1] + 1][c[2] + 1] = snapshot[c[1] + 1][c[2] + 1]

\* a step has completed on a grid with a non-empty cell that no rule matched
C3_Witness ==
  /\ pc = "ready"
  /\ turn > 0
  /\ \E c \in CellsOf(snapshot) :
       /\ Matching(snapshot, c[1], c[2], rules) = {}
       /\ snapshot[c[1] + 1][c[2] + 1] # "_"
       /\ grid[c[1] + 1][c[2] + 1] = snapshot[c[1] + 1][c[2] + 1]

\* the offsets at which the pattern of rule holds a concrete state while
\* (cx+dx, cy+dy) lies outside g
OffGridConcrete(rule, g, cx, cy) ==
  {d \in (-1..1) \X (-1..1) :
     /\ rule.pattern[d[1] + 2][d[2] + 2] # "X"
     /\ \/ cx + d[1] < 0 \/ cx + d[1] > Len(g) - 1
        \/ cy + d[2] < 0 \/ cy + d[2] > Len(g[1]) - 1}

\* C4 - boundary conservatism: a rule whose pattern holds a concrete state at
\* an offset that falls outside the grid never matches the cell, whatever the
\* in-bounds cells hold (no wraparound, no implicit boundary state).
C4_BoundaryConservatism ==
  call.op = "matches" /\ OffGridConcrete(rules[call.i], grid, call.x, call.y) # {} =>
    ~call.hit

\* matches was asked about a cell whose off-grid requirement would be met by
\* the cell on the opposite edge, and answered False
C4_Witness ==
  /\ call.op = "matches"
  /\ ~call.hit
  /\ \E d \in OffGridConcrete(rules[call.i], grid, call.x, call.y) :
       grid[((call.x + d[1]) % Len(grid)) + 1][((call.y + d[2]) % Len(grid[1])) + 1]
         = rules[call.i].pattern[d[1] + 2][d[2] + 2]
  /\ rules[call.i].conditions = <<>>

\* cond passes as the specification words it: IN is membership of the count
\* in values, NOT_IN is non-membership
PassesWithOperator(cond, g, cx, cy) ==
  LET n == Cardinality(NeighborsHolding(g, cx, cy, cond.state))
  IN IF cond.operator = "NOT_IN" THEN n \notin cond.values
     ELSE n \in cond.values

\* cond passes by membership alone, whatever its operator
PassesByMembership(cond, g, cx, cy) ==
  Cardinality(NeighborsHolding(g, cx, cy, cond.state)) \in cond.values

\* C5 as stated - for a rule whose pattern matches, the rule matches iff
\* every condition passes, IN by membership and NOT_IN by non-membership.
C5_OperatorSemantics ==
  call.op = "matches" /\ PatternOk(rules[call.i], grid, call.x, call.y) =>
    (call.hit <=>
       \A k \in 1..Len(rules[call.i].conditions) :
         PassesWithOperator(rules[call.i].conditions[k], grid, call.x, call.y))

\* C5 as amended - for a rule whose pattern matches, a neighbor-count
\* condition passes iff the count of neighbors in condition.state is a member
\* of condition.values, whatever operator it carries; the rule matches iff
\* every condition passes.
C5_MembershipOnly ==
  call.op = "matches" /\ PatternOk(rules[call.i], grid, call.x, call.y) =>
    (call.hit <=>
       \A k \in 1..Len(rules[call.i].conditions) :
         PassesByMembership(rules[call.i].conditions[k], grid, call.x, call.y))

\* a rule with a NOT_IN condition matched a cell whose count is in values
C5_Witness ==
  /\ call.op = "matches"
  /\ call.hit
  /\ \E k \in 1..Len(rules[call.i].conditions) :
       /\ rules[call.i].conditions[k].operator = "NOT_IN"
       /\ PassesByMembership(rules[call.i].conditions[k], grid, call.x, call.y)

\* the generation that follows g: every cell resolved against g itself
NextGeneration(g, rs) ==
  [r \in 1..Len(g) |->
     [c \in 1..Len(g[1]) |-> calculate_next_cell_state(g, r - 1, c - 1, rs)]]

\* C2 - synchronous snapshot update: when step has completed, every cell
\* (x,y) of range(height) x range(width) equals the next state computed for
\* (x,y) from the grid as it was before the step began, so no cell was
\* resolved from a cell already updated in the same step.
C2_SnapshotUpdate ==
  /\ pc = "step" =>
       \A c \in Resolved :
         new_grid[c[1] + 1][c[2] + 1]
           = calculate_next_cell_state(snapshot, c[1], c[2], rules)
  /\ pc = "ready" /\ turn > 0 /\ err = "none" =>
       \A cx \in 0..(height - 1) : \A cy \in 0..(width - 1) :
         grid[cx + 1][cy + 1] = calculate_next_cell_state(snapshot, cx, cy, rules)

\* a step has completed in which a cell and a neighbor resolved before it
\* both changed state
C2_Witness ==
  /\ pc = "ready"
  /\ turn > 0
  /\ \E c \in CellsOf(snapshot) : \E d \in Around :
       LET ex == c[1] + d[1]
           ey == c[2] + d[2]
       IN /\ <<ex, ey>> \in CellsOf(snapshot)
          /\ (ex < c[1] \/ (ex = c[1] /\ ey < c[2]))
          /\ grid[c[1] + 1][c[2] + 1] # snapshot[c[1] + 1][c[2] + 1]
          /\ grid[ex + 1][ey + 1] # snapshot[ex + 1][ey + 1]

\* C7 - atomic commit: at every point of a step the visible grid is the
\* complete pre-step generation, and once the step has returned it is the
\* complete post-step generation; it is never a mixture of the two.
C7_AtomicCommit ==
  /\ pc = "step" => grid = snapshot
  /\ pc = "ready" /\ turn > 0 => grid = NextGeneration(snapshot, rules)

\* a step is under way, some but not all cells are resolved and the buffer
\* already differs from the visible grid
C7_Witness ==
  /\ pc = "step"
  /\ x < height
  /\ <<x, y>> # <<0, 0>>
  /\ new_grid # grid
  /\ grid = snapshot

\* the states named as the result of some rule
ResultStates(rs) == {rs[i].new_state : i \in 1..Len(rs)}

\* the states held by the cells of an array
StatesIn(g) == {g[c[1] + 1][c[2] + 1] : c \in CellsOf(g)}

\* C9 - step post-condition as an invariant: width, height and the shape of
\* the cell array stay as constructed; after each step every cell holds the
\* state it held before that step or the new_state of some rule; every state
\* in the grid is one of the initial grid or a result state of the rules.
C9_StepPostCondition ==
  pc \in {"ready", "step"} =>
    /\ width = args.width
    /\ height = args.height
    /\ Len(grid) = Len(args.initial)
    /\ \A r \in 1..Len(grid) : Len(grid[r]) = Len(args.initial[r])
    /\ StatesIn(grid) \subseteq StatesIn(args.initial) \cup ResultStates(rules)
    /\ pc = "ready" /\ turn > 0 =>
         \A c \in CellsOf(grid) :
           \/ grid[c[1] + 1][c[2] + 1] = snapshot[c[1] + 1][c[2] + 1]
           \/ grid[c[1] + 1][c[2] + 1] \in ResultStates(rules)

\* two steps have run and the grid holds a state the initial grid did not
C9_Witness ==
  /\ pc = "ready"
  /\ turn >= 2
  /\ grid # snapshot
  /\ ~(StatesIn(grid) \subseteq StatesIn(args.initial))

\* the arguments describe a non-empty rectangular array of the declared
\* height and width whose cells are all one-character strings
WellFormedArgs ==
  /\ Len(args.initial) > 0
  /\ Len(args.initial) = args.height
  /\ \A r \in 1..Len(args.initial) :
       /\ Len(args.initial[r]) > 0
       /\ Len(args.initial[r]) = args.width
       /\ \A c \in 1..Len(args.initial[r]) : Len(args.initial[r][c]) = 1

\* C6 - construction rejects malformed input: whenever initial is empty, not
\* rectangular, of a shape other than height x width, or holds at any
\* position a cell that is not a one-character string, construction fails and
\* no Grid over which step can run exists.
C6_RejectsMalformed ==
  pc \in {"ready", "step"} => WellFormedArgs

C10_NeighborCount ==
  call.op = "count" =>
    LET onRowEdge == call.x = 0 \/ call.x = Len(grid) - 1
        onColEdge == call.y = 0 \/ call.y = Len(grid[1]) - 1
    IN /\ call.count
            = Cardinality(NeighborsHolding(grid, call.x, call.y, call.state))
       /\ onRowEdge /\ onColEdge => call.count <= 3
       /\ onRowEdge \/ onColEdge => call.count <= 5
       /\ call.count <= 8

\* an inner cell that holds s has all 8 neighbors holding s and the count is 8
C10_Witness ==
  /\ call.op = "count"
  /\ call.x > 0 /\ call.x < Len(grid) - 1
  /\ call.y > 0 /\ call.y < Len(grid[1]) - 1
  /\ grid[call.x + 1][call.y + 1] = call.state
  /\ call.count = 8

====
